---- MODULE Spec2Model ----
(***************************************************************************)
(* Model of src/services/calculator.ts (calculateScenario): the month by   *)
(* month simulation of the two strategies, Regular (pay the base EMI and   *)
(* invest the surplus) and Aggressive (pay the whole budget to the loan    *)
(* and invest after closure), and the summary computed after the loop.     *)
(*                                                                         *)
(* Numbers.  Every quantity of the code is a JavaScript Number: a binary   *)
(* floating point value, NaN or an infinity.  The model keeps that shape   *)
(* with a shorter significand: a finite value is m * 2^e with a signed     *)
(* significand m of exactly Precision bits (or m = 0), every arithmetic    *)
(* operation rounds its exact result to the nearest such value (ties to    *)
(* even) as IEEE 754 does, and 0/0 is NaN.  The exponent is unbounded (no  *)
(* overflow or underflow to zero; the amounts of a loan are far from the   *)
(* limits of a double) and -0 is identified with 0 (no comparison of the   *)
(* code tells them apart).                                                 *)
(***************************************************************************)
EXTENDS Integers, Sequences, FiniteSets, TLC

\* Bits of the significand of a finite number (53 in a JavaScript double).
Precision == 12

\* Largest tenureYears of the inputs drawn in Init.
MaxTenureYears == 2

MonthsPerYear == 12

\* The number of change events of the App's input fields that are explored.
MaxEdits == 1

-----------------------------------------------------------------------------
(* JavaScript Number *)

RECURSIVE Pow2(_)
Pow2(k) == IF k <= 0 THEN 1 ELSE 2 * Pow2(k - 1)

RECURSIVE BitLen(_)
BitLen(n) == IF n = 0 THEN 0 ELSE 1 + BitLen(n \div 2)

AbsInt(n) == IF n < 0 THEN 0 - n ELSE n

SignInt(n) == IF n < 0 THEN 0 - 1 ELSE IF n > 0 THEN 1 ELSE 0

NaN == [k |-> "nan", m |-> 0, e |-> 0]

Inf(s) == [k |-> "inf", m |-> s, e |-> 0]

Zero == [k |-> "fin", m |-> 0, e |-> 0]

\* The value of a local that has not been declared yet (before the call).
Unset == [k |-> "unset", m |-> 0, e |-> 0]

IsNaN(a) == a.k = "nan"

IsFin(a) == a.k = "fin"

IsInf(a) == a.k = "inf"

\* The number nearest to s * n * 2^e (n >= 0, s the sign), ties to even.
Round(s, n, e) ==
  IF n = 0 THEN Zero
  ELSE LET b == BitLen(n) IN
       IF b <= Precision
       THEN [k |-> "fin", m |-> s * n * Pow2(Precision - b), e |-> e - (Precision - b)]
       ELSE LET sh   == b - Precision
                q    == n \div Pow2(sh)
                r    == n % Pow2(sh)
                half == Pow2(sh - 1)
                q2   == IF r > half \/ (r = half /\ q % 2 = 1) THEN q + 1 ELSE q
            IN IF q2 = Pow2(Precision)
               THEN [k |-> "fin", m |-> s * Pow2(Precision - 1), e |-> e + sh + 1]
               ELSE [k |-> "fin", m |-> s * q2, e |-> e + sh]

\* A numeric literal or an integer-valued number.
Num(n) == Round(SignInt(n), AbsInt(n), 0)

Neg(a) == IF IsNaN(a) THEN NaN ELSE [a EXCEPT !.m = 0 - a.m]

\* a + b of two finite numbers: the exact sum, rounded once.  An addend more
\* than Precision + 1 binary places below the other is under a quarter of
\* its unit in the last place and cannot change the rounded result.
AddFin(a, b) ==
  IF a.m = 0 THEN b
  ELSE IF b.m = 0 THEN a
  ELSE LET hi == IF a.e >= b.e THEN a ELSE b
           lo == IF a.e >= b.e THEN b ELSE a
           d  == hi.e - lo.e
       IN IF d > Precision + 1 THEN hi
          ELSE LET s == hi.m * Pow2(d) + lo.m
               IN Round(SignInt(s), AbsInt(s), lo.e)

\* a + b
Add(a, b) ==
  IF IsNaN(a) \/ IsNaN(b) THEN NaN
  ELSE IF IsInf(a) /\ IsInf(b) THEN (IF a.m = b.m THEN a ELSE NaN)
  ELSE IF IsInf(a) THEN a
  ELSE IF IsInf(b) THEN b
  ELSE AddFin(a, b)

\* a - b
Sub(a, b) == Add(a, Neg(b))

\* a * b
Mul(a, b) ==
  IF IsNaN(a) \/ IsNaN(b) THEN NaN
  ELSE IF IsInf(a) \/ IsInf(b)
       THEN (IF a.m = 0 \/ b.m = 0 THEN NaN ELSE Inf(SignInt(a.m) * SignInt(b.m)))
  ELSE LET p == a.m * b.m
       IN Round(SignInt(p), AbsInt(p), a.e + b.e)

\* a / b: the quotient to Precision + 2 places and a sticky bit for the
\* remainder, rounded once.
Div(a, b) ==
  IF IsNaN(a) \/ IsNaN(b) THEN NaN
  ELSE IF IsInf(a) THEN (IF IsInf(b) THEN NaN
                         ELSE Inf(a.m * (IF b.m < 0 THEN 0 - 1 ELSE 1)))
  ELSE IF IsInf(b) THEN Zero
  ELSE IF b.m = 0 THEN (IF a.m = 0 THEN NaN ELSE Inf(SignInt(a.m)))
  ELSE IF a.m = 0 THEN Zero
  ELSE LET num == AbsInt(a.m) * Pow2(Precision + 2)
           q   == num \div AbsInt(b.m)
           r   == num % AbsInt(b.m)
           n   == 2 * q + (IF r = 0 THEN 0 ELSE 1)
       IN Round(SignInt(a.m) * SignInt(b.m), n, a.e - b.e - (Precision + 2) - 1)

\* a < b (false when either is NaN)
LT(a, b) ==
  IF IsNaN(a) \/ IsNaN(b) THEN FALSE
  ELSE IF IsInf(a) THEN a.m < 0 /\ ~(IsInf(b) /\ b.m < 0)
  ELSE IF IsInf(b) THEN b.m > 0
  ELSE Sub(a, b).m < 0

\* a > b
GT(a, b) == LT(b, a)

\* a === b (false when either is NaN)
EQ(a, b) == ~IsNaN(a) /\ ~IsNaN(b) /\ a = b

\* a <= b
LE(a, b) == LT(a, b) \/ EQ(a, b)

\* Math.max(0, a)
Max0(a) == IF IsNaN(a) THEN NaN ELSE IF LT(a, Zero) THEN Zero ELSE a

\* Math.abs(a)
Abs(a) == IF IsNaN(a) THEN NaN ELSE [a EXCEPT !.m = AbsInt(a.m)]

\* Math.pow(a, n) for an integer exponent n: 1 for n = 0 (also for NaN),
\* for n > 0 the product by repeated squaring with every product rounded
\* (the language leaves the accuracy of Math.pow to the implementation), and
\* its reciprocal for n < 0.
RECURSIVE PowNat(_, _)
PowNat(a, n) ==
  IF n = 0 THEN Num(1)
  ELSE LET h  == PowNat(a, n \div 2)
           sq == Mul(h, h)
       IN IF n % 2 = 1 THEN Mul(sq, a) ELSE sq

Pow(a, n) == IF n >= 0 THEN PowNat(a, n) ELSE Div(Num(1), PowNat(a, 0 - n))

\* CeilDiv12 rounding down (Math.floor) instead of up.
FloorDiv12(month) == month \div MonthsPerYear

\* Math.ceil(month / 12) for an integer month
CeilDiv12(month) == (month + MonthsPerYear - 1) \div MonthsPerYear

-----------------------------------------------------------------------------
(* Inputs *)

\* A LoanInput whose numeric fields are the given integers.
MkInput(p, i, t, s, x, u) ==
  [principal |-> Num(p), interestRate |-> Num(i), tenureYears |-> t,
   sipReturnRate |-> Num(s), extraEmiPerYear |-> Num(x), stepUpPercentage |-> Num(u)]

Principals == {0 - 1000, 0, 1000, 3000}

InterestRates == {0 - 6, 0, 6, 9, 24, 75}

TenureYearsSet == (0 - 1)..MaxTenureYears

SipReturnRates == {0 - 12, 0, 12}

ExtraEmis == {0, 1}

StepUps == {0, 10}

Inputs ==
  { MkInput(p, i, t, s, x, u) : p \in Principals, i \in InterestRates,
      t \in TenureYearsSet, s \in SipReturnRates, x \in ExtraEmis, u \in StepUps }

\* The constraints of LoanInput (the code checks none of them).
ValidInput(in) ==
  /\ GT(in.principal, Zero)
  /\ in.tenureYears > 0
  /\ ~LT(in.interestRate, Zero) /\ ~IsNaN(in.interestRate)
  /\ ~LT(in.sipReturnRate, Zero) /\ ~IsNaN(in.sipReturnRate)
  /\ ~LT(in.extraEmiPerYear, Zero) /\ ~IsNaN(in.extraEmiPerYear)
  /\ ~LT(in.stepUpPercentage, Zero) /\ ~IsNaN(in.stepUpPercentage)

-----------------------------------------------------------------------------
(* calculateScenario *)

VARIABLES
  pc,                       \* "call", "loop" (at the loop test), "done"
  input,                    \* the LoanInput of the call
  monthlyRate, totalMonths, sipMonthlyRate, baseEmi,
  balanceRegular, balanceAggressive,
  sipValueRegular, sipValueAggressive,
  totalInvestedRegular, totalInvestedAggressive,
  totalInterestRegular, totalInterestAggressive,
  aggressiveClosedMonth, regularClosedMonth,
  isAggressiveClosed, isRegularClosed,
  month,                    \* the loop variable
  loc,                      \* the block-scoped locals of the last iteration
  data,                     \* MonthlyData[]
  result,                   \* the returned SimulationResult, or NoResult
  advice,                   \* the call of getAIAdvice(input, result), if any
  app                       \* the App component's state, when it is mounted

vars ==
  << pc, input, monthlyRate, totalMonths, sipMonthlyRate, baseEmi,
     balanceRegular, balanceAggressive, sipValueRegular, sipValueAggressive,
     totalInvestedRegular, totalInvestedAggressive,
     totalInterestRegular, totalInterestAggressive,
     aggressiveClosedMonth, regularClosedMonth,
     isAggressiveClosed, isRegularClosed, month, loc, data, result,
     advice, app >>

NoResult == [returned |-> FALSE]

NoLocals == [month |-> 0]

\* No call of getAIAdvice yet: process.env.API_KEY has not been read.
NoAdvice == [pc |-> "idle", apiKey |-> "unread", failed |-> FALSE,
             given |-> NoResult, text |-> ""]

\* calculateScenario called directly, without the App.
NoApp == [mounted |-> FALSE]

\* const baseEmi = (principal * monthlyRate * Math.pow(1 + monthlyRate, totalMonths))
\*               / (Math.pow(1 + monthlyRate, totalMonths) - 1)
BaseEmi(principal, rate, n) ==
  Div(Mul(Mul(principal, rate), Pow(Add(Num(1), rate), n)),
      Sub(Pow(Add(Num(1), rate), n), Num(1)))

\* TotalBudget with the step-up dividing the base EMI instead of multiplying it.
TotalBudgetStepDown(emi, in, m) ==
  LET year == CeilDiv12(m)
      currentMonthlyBudget ==
        IF year > 1
        THEN LET increaseFactor == Add(Num(1), Div(in.stepUpPercentage, Num(100)))
             IN Div(emi, Pow(increaseFactor, year - 1))
        ELSE emi
      extraPaymentBudget ==
        IF GT(in.extraEmiPerYear, Zero) /\ m % MonthsPerYear = 0
        THEN Mul(emi, in.extraEmiPerYear)
        ELSE Zero
  IN Add(currentMonthlyBudget, extraPaymentBudget)

\* TotalBudget with the step-up counted from year 1 (exponent year instead of
\* year - 1).
TotalBudgetStepFromYearOne(emi, in, m) ==
  LET year == CeilDiv12(m)
      currentMonthlyBudget ==
        IF year > 1
        THEN LET increaseFactor == Add(Num(1), Div(in.stepUpPercentage, Num(100)))
             IN Mul(emi, Pow(increaseFactor, year))
        ELSE emi
      extraPaymentBudget ==
        IF GT(in.extraEmiPerYear, Zero) /\ m % MonthsPerYear = 0
        THEN Mul(emi, in.extraEmiPerYear)
        ELSE Zero
  IN Add(currentMonthlyBudget, extraPaymentBudget)

\* totalBudgetThisMonth of a month: the stepped-up base EMI plus, in the last
\* month of a year, the extra EMIs.
TotalBudget(emi, in, m) ==
  LET year == CeilDiv12(m)
      currentMonthlyBudget ==
        IF year > 1
        THEN LET increaseFactor == Add(Num(1), Div(in.stepUpPercentage, Num(100)))
             IN Mul(emi, Pow(increaseFactor, year - 1))
        ELSE emi
      extraPaymentBudget ==
        IF GT(in.extraEmiPerYear, Zero) /\ m % MonthsPerYear = 0
        THEN Mul(emi, in.extraEmiPerYear)
        ELSE Zero
  IN Add(currentMonthlyBudget, extraPaymentBudget)

\* RegularLoan recording the closure month counted from 0.
RegularLoanZeroBased(closed, closedMonth, balance, totalInterest, emi, rate, m) ==
  IF ~closed
  THEN LET interest == Mul(balance, rate)
           pc0      == Sub(emi, interest)
           closes   == LT(Sub(balance, pc0), Zero)
           principalComp == IF closes THEN balance ELSE pc0
       IN [closed |-> closes, closedMonth |-> IF closes THEN m - 1 ELSE closedMonth,
           totalInterest |-> Add(totalInterest, interest),
           balance |-> Sub(balance, principalComp),
           active |-> TRUE, interest |-> interest, principalComp |-> principalComp]
  ELSE [closed |-> closed, closedMonth |-> closedMonth,
        totalInterest |-> totalInterest, balance |-> balance,
        active |-> FALSE, interest |-> Zero, principalComp |-> Zero]

\* Strategy A, loan part: one month of the Regular track.
RegularLoan(closed, closedMonth, balance, totalInterest, emi, rate, m) ==
  IF ~closed
  THEN LET interest == Mul(balance, rate)
           pc0      == Sub(emi, interest)
           closes   == LT(Sub(balance, pc0), Zero)
           principalComp == IF closes THEN balance ELSE pc0
       IN [closed |-> closes, closedMonth |-> IF closes THEN m ELSE closedMonth,
           totalInterest |-> Add(totalInterest, interest),
           balance |-> Sub(balance, principalComp),
           active |-> TRUE, interest |-> interest, principalComp |-> principalComp]
  ELSE [closed |-> closed, closedMonth |-> closedMonth,
        totalInterest |-> totalInterest, balance |-> balance,
        active |-> FALSE, interest |-> Zero, principalComp |-> Zero]

\* Strategy A, investment part: the surplus of the month.
SurplusRegular(budget, closed, emi) ==
  Sub(budget, IF closed THEN Zero ELSE emi)

\* AggressiveLoan with the operands of the principal component swapped
\* (interest - payment).
AggressiveLoanSwapped(closed, closedMonth, balance, totalInterest, budget, rate, m) ==
  IF ~closed
  THEN LET amountForLoanAggressive == budget
           interest == Mul(balance, rate)
           pc0      == Sub(interest, amountForLoanAggressive)
           closes   == LT(Sub(balance, pc0), Zero)
           actualNeeded  == Add(balance, interest)
           principalComp == IF closes THEN balance ELSE pc0
       IN [closed |-> closes, closedMonth |-> IF closes THEN m ELSE closedMonth,
           totalInterest |-> Add(totalInterest, interest),
           balance |-> Sub(balance, principalComp),
           amountForLoan |-> amountForLoanAggressive,
           amountForSip |-> IF closes THEN Sub(budget, actualNeeded) ELSE Zero,
           active |-> TRUE, interest |-> interest, principalComp |-> principalComp]
  ELSE [closed |-> closed, closedMonth |-> closedMonth,
        totalInterest |-> totalInterest, balance |-> balance,
        amountForLoan |-> Zero, amountForSip |-> budget,
        active |-> FALSE, interest |-> Zero, principalComp |-> Zero]

\* AggressiveLoan without the test of the closed flag: the loan part runs in
\* every month.
AggressiveLoanUnguarded(closed, closedMonth, balance, totalInterest, budget, rate, m) ==
  LET amountForLoanAggressive == budget
      interest == Mul(balance, rate)
      pc0      == Sub(amountForLoanAggressive, interest)
      closes   == LT(Sub(balance, pc0), Zero)
      actualNeeded  == Add(balance, interest)
      principalComp == IF closes THEN balance ELSE pc0
  IN [closed |-> closes \/ closed, closedMonth |-> IF closes THEN m ELSE closedMonth,
      totalInterest |-> Add(totalInterest, interest),
      balance |-> Sub(balance, principalComp),
      amountForLoan |-> amountForLoanAggressive,
      amountForSip |-> IF closes THEN Sub(budget, actualNeeded) ELSE Zero,
      active |-> TRUE, interest |-> interest, principalComp |-> principalComp]

\* AggressiveLoan that leaves the remainder of the closing month uninvested.
AggressiveLoanRemainderLost(closed, closedMonth, balance, totalInterest, budget, rate, m) ==
  IF ~closed
  THEN LET amountForLoanAggressive == budget
           interest == Mul(balance, rate)
           pc0      == Sub(amountForLoanAggressive, interest)
           closes   == LT(Sub(balance, pc0), Zero)
           principalComp == IF closes THEN balance ELSE pc0
       IN [closed |-> closes, closedMonth |-> IF closes THEN m ELSE closedMonth,
           totalInterest |-> Add(totalInterest, interest),
           balance |-> Sub(balance, principalComp),
           amountForLoan |-> amountForLoanAggressive,
           amountForSip |-> Zero,
           active |-> TRUE, interest |-> interest, principalComp |-> principalComp]
  ELSE [closed |-> closed, closedMonth |-> closedMonth,
        totalInterest |-> totalInterest, balance |-> balance,
        amountForLoan |-> Zero, amountForSip |-> budget,
        active |-> FALSE, interest |-> Zero, principalComp |-> Zero]

\* Strategy B, loan part: one month of the Aggressive track and the amount
\* left for the SIP.
AggressiveLoan(closed, closedMonth, balance, totalInterest, budget, rate, m) ==
  IF ~closed
  THEN LET amountForLoanAggressive == budget
           interest == Mul(balance, rate)
           pc0      == Sub(amountForLoanAggressive, interest)
           closes   == LT(Sub(balance, pc0), Zero)
           actualNeeded  == Add(balance, interest)
           principalComp == IF closes THEN balance ELSE pc0
       IN [closed |-> closes, closedMonth |-> IF closes THEN m ELSE closedMonth,
           totalInterest |-> Add(totalInterest, interest),
           balance |-> Sub(balance, principalComp),
           amountForLoan |-> amountForLoanAggressive,
           amountForSip |-> IF closes THEN Sub(budget, actualNeeded) ELSE Zero,
           active |-> TRUE, interest |-> interest, principalComp |-> principalComp]
  ELSE [closed |-> closed, closedMonth |-> closedMonth,
        totalInterest |-> totalInterest, balance |-> balance,
        amountForLoan |-> Zero, amountForSip |-> budget,
        active |-> FALSE, interest |-> Zero, principalComp |-> Zero]

\* SipStep with the amount taken off the total invested instead of added.
SipStepSubtracting(value, invested, amount, sipRate) ==
  IF GT(amount, Zero)
  THEN << Mul(Add(value, amount), Add(Num(1), sipRate)), Sub(invested, amount) >>
  ELSE << Mul(value, Add(Num(1), sipRate)), invested >>

\* SipStep with the month's growth applied before the amount is added.
SipStepGrowthFirst(value, invested, amount, sipRate) ==
  IF GT(amount, Zero)
  THEN << Add(Mul(value, Add(Num(1), sipRate)), amount), Add(invested, amount) >>
  ELSE << Mul(value, Add(Num(1), sipRate)), invested >>

\* One month of an investment: <<value, total invested>> after the month.
SipStep(value, invested, amount, sipRate) ==
  IF GT(amount, Zero)
  THEN << Mul(Add(value, amount), Add(Num(1), sipRate)), Add(invested, amount) >>
  ELSE << Mul(value, Add(Num(1), sipRate)), invested >>

\* FinalWealth without the outstanding loan.
FinalWealthIgnoringLoan(sipValue, balance) == sipValue

\* Final wealth of a strategy: sipValue - Math.max(0, balance)
FinalWealth(sipValue, balance) == Sub(sipValue, Max0(balance))

\* Verdict with a non-strict comparison.
VerdictNotStrict(finalWealthAggressive, finalWealthRegular) ==
  IF LE(finalWealthRegular, finalWealthAggressive) THEN "Prepay" ELSE "Invest"

\* winningStrategy
Verdict(finalWealthAggressive, finalWealthRegular) ==
  IF GT(finalWealthAggressive, finalWealthRegular) THEN "Prepay" ELSE "Invest"

Init ==
  /\ pc = "call"
  /\ input \in Inputs
  /\ monthlyRate = Unset /\ sipMonthlyRate = Unset /\ baseEmi = Unset
  /\ totalMonths = 0
  /\ balanceRegular = Unset /\ balanceAggressive = Unset
  /\ sipValueRegular = Unset /\ sipValueAggressive = Unset
  /\ totalInvestedRegular = Unset /\ totalInvestedAggressive = Unset
  /\ totalInterestRegular = Unset /\ totalInterestAggressive = Unset
  /\ aggressiveClosedMonth = 0 /\ regularClosedMonth = 0
  /\ isAggressiveClosed = FALSE /\ isRegularClosed = FALSE
  /\ month = 0
  /\ loc = NoLocals
  /\ data = << >>
  /\ result = NoResult
  /\ advice = NoAdvice
  /\ app = NoApp

\* The declarations before the loop and the loop's initialisation.
Enter ==
  /\ pc = "call"
  /\ pc' = "loop"
  /\ monthlyRate' = Div(Div(input.interestRate, Num(12)), Num(100))
  /\ totalMonths' = input.tenureYears * 12
  /\ sipMonthlyRate' = Div(Div(input.sipReturnRate, Num(12)), Num(100))
  /\ baseEmi' = BaseEmi(input.principal, monthlyRate', totalMonths')
  /\ balanceRegular' = input.principal
  /\ balanceAggressive' = input.principal
  /\ sipValueRegular' = Zero /\ sipValueAggressive' = Zero
  /\ totalInvestedRegular' = Zero /\ totalInvestedAggressive' = Zero
  /\ totalInterestRegular' = Zero /\ totalInterestAggressive' = Zero
  /\ aggressiveClosedMonth' = totalMonths'
  /\ regularClosedMonth' = totalMonths'
  /\ isAggressiveClosed' = FALSE /\ isRegularClosed' = FALSE
  /\ data' = << >>
  /\ month' = 1
  /\ UNCHANGED << input, loc, result, advice, app >>

\* One iteration of the loop.
Month ==
  /\ pc = "loop"
  /\ month <= totalMonths
  /\ LET totalBudgetThisMonth == TotalBudget(baseEmi, input, month)
         a == RegularLoan(isRegularClosed, regularClosedMonth, balanceRegular,
                          totalInterestRegular, baseEmi, monthlyRate, month)
         surplusRegular == SurplusRegular(totalBudgetThisMonth, a.closed, baseEmi)
         sa == SipStep(sipValueRegular, totalInvestedRegular, surplusRegular,
                       sipMonthlyRate)
         b == AggressiveLoan(isAggressiveClosed, aggressiveClosedMonth,
                             balanceAggressive, totalInterestAggressive,
                             totalBudgetThisMonth, monthlyRate, month)
         sb == SipStep(sipValueAggressive, totalInvestedAggressive, b.amountForSip,
                       sipMonthlyRate)
     IN /\ isRegularClosed' = a.closed
        /\ regularClosedMonth' = a.closedMonth
        /\ totalInterestRegular' = a.totalInterest
        /\ balanceRegular' = a.balance
        /\ sipValueRegular' = sa[1]
        /\ totalInvestedRegular' = sa[2]
        /\ isAggressiveClosed' = b.closed
        /\ aggressiveClosedMonth' = b.closedMonth
        /\ totalInterestAggressive' = b.totalInterest
        /\ balanceAggressive' = b.balance
        /\ sipValueAggressive' = sb[1]
        /\ totalInvestedAggressive' = sb[2]
        /\ loc' = [month |-> month,
                   totalBudgetThisMonth |-> totalBudgetThisMonth,
                   regularActive |-> a.active,
                   interestRegular |-> a.interest,
                   principalCompRegular |-> a.principalComp,
                   surplusRegular |-> surplusRegular,
                   aggressiveActive |-> b.active,
                   interestAggressive |-> b.interest,
                   principalCompAggressive |-> b.principalComp,
                   amountForLoanAggressive |-> b.amountForLoan,
                   amountForSipAggressive |-> b.amountForSip]
        /\ data' = Append(data,
                   [month |-> month,
                    year |-> CeilDiv12(month),
                    loanBalanceRegular |-> Max0(a.balance),
                    loanBalanceAggressive |-> Max0(b.balance),
                    sipValueRegular |-> sa[1],
                    sipValueAggressive |-> sb[1],
                    cumulativeInterestRegular |-> a.totalInterest,
                    cumulativeInterestAggressive |-> b.totalInterest,
                    totalInvestedRegular |-> sa[2],
                    totalInvestedAggressive |-> sb[2]])
  /\ month' = month + 1
  /\ UNCHANGED << pc, input, monthlyRate, totalMonths, sipMonthlyRate, baseEmi, result,
                  advice, app >>

\* The summary and the return, once the loop test fails.
Return ==
  /\ pc = "loop"
  /\ ~(month <= totalMonths)
  /\ pc' = "done"
  /\ LET finalWealthRegular    == FinalWealth(sipValueRegular, balanceRegular)
         finalWealthAggressive == FinalWealth(sipValueAggressive, balanceAggressive)
     IN result' =
          [returned |-> TRUE,
           monthlyData |-> data,
           summary |->
             [regularTotalInterest |-> totalInterestRegular,
              aggressiveTotalInterest |-> totalInterestAggressive,
              regularTenureMonths |-> regularClosedMonth,
              aggressiveTenureMonths |-> aggressiveClosedMonth,
              interestSaved |-> Sub(totalInterestRegular, totalInterestAggressive),
              finalWealthRegular |-> finalWealthRegular,
              finalWealthAggressive |-> finalWealthAggressive,
              totalAmountInvestedRegular |-> totalInvestedRegular,
              totalAmountInvestedAggressive |-> totalInvestedAggressive,
              winningStrategy |-> Verdict(finalWealthAggressive, finalWealthRegular),
              netWealthDifference |-> Abs(Sub(finalWealthAggressive, finalWealthRegular))]]
  /\ UNCHANGED << input, monthlyRate, totalMonths, sipMonthlyRate, baseEmi,
                  balanceRegular, balanceAggressive, sipValueRegular, sipValueAggressive,
                  totalInvestedRegular, totalInvestedAggressive,
                  totalInterestRegular, totalInterestAggressive,
                  aggressiveClosedMonth, regularClosedMonth,
                  isAggressiveClosed, isRegularClosed, month, loc, data,
                  advice, app >>

\* The variables of calculateScenario.
calcVars ==
  << pc, input, monthlyRate, totalMonths, sipMonthlyRate, baseEmi,
     balanceRegular, balanceAggressive, sipValueRegular, sipValueAggressive,
     totalInvestedRegular, totalInvestedAggressive,
     totalInterestRegular, totalInterestAggressive,
     aggressiveClosedMonth, regularClosedMonth,
     isAggressiveClosed, isRegularClosed, month, loc, data, result >>

-----------------------------------------------------------------------------
(* getAIAdvice(input, result) *)

\* The message of the catch block.
FallbackAdvice == "Unable to generate AI advice at this moment."

\* The call, up to the await of generateContent: process.env.API_KEY is read;
\* without a key the function throws, with one the request is sent.
GetAIAdvice ==
  /\ pc = "done"
  /\ advice.pc = "idle"
  /\ \E key \in BOOLEAN :
       advice' =
         IF ~key
         THEN [pc |-> "thrown", apiKey |-> "missing", failed |-> FALSE,
               given |-> result, text |-> "API Key is missing"]
         ELSE [pc |-> "awaiting", apiKey |-> "set", failed |-> FALSE,
               given |-> result, text |-> ""]
  /\ UNCHANGED << calcVars, app >>

\* generateContent resolves: response.text is returned.
GenerateContentResolves ==
  /\ advice.pc = "awaiting"
  /\ advice' = [advice EXCEPT !.pc = "returned", !.text = "response.text"]
  /\ UNCHANGED << calcVars, app >>

\* generateContent rejects: the catch block returns the fallback message.
GenerateContentRejects ==
  /\ advice.pc = "awaiting"
  /\ advice' = [advice EXCEPT !.pc = "returned", !.failed = TRUE,
                              !.text = FallbackAdvice]
  /\ UNCHANGED << calcVars, app >>

Next ==
  \/ Enter \/ Month \/ Return
  \/ GetAIAdvice \/ GenerateContentResolves \/ GenerateContentRejects

Spec == Init /\ [][Next]_vars

-----------------------------------------------------------------------------
(* App.tsx: the input fields and the recalculation effect *)

\* The numbers held by the App are decimal: n / 10^d with n not divisible by
\* 10 when d > 0; NotANumber is parseFloat's NaN.
RECURSIVE Decimal(_, _)
Decimal(n, d) ==
  IF d > 0 /\ n % 10 = 0 THEN Decimal(n \div 10, d - 1) ELSE [n |-> n, d |-> d]

NotANumber == [n |-> 0 - 1, d |-> 0]

RECURSIVE Pow10(_)
Pow10(d) == IF d = 0 THEN 1 ELSE 10 * Pow10(d - 1)

DigitChars == << "0", "1", "2", "3", "4", "5", "6", "7", "8", "9" >>

IsDigit(c) == \E i \in 1..10 : DigitChars[i] = c

DigitValue(c) == (CHOOSE i \in 1..10 : DigitChars[i] = c) - 1

RECURSIVE DigitsValue(_)
DigitsValue(t) ==
  IF t = << >> THEN 0
  ELSE 10 * DigitsValue(SubSeq(t, 1, Len(t) - 1)) + DigitValue(t[Len(t)])

\* /^\d*\.?\d*$/.test(t)
MatchesDecimal(t) ==
  /\ \A i \in 1..Len(t) : IsDigit(t[i]) \/ t[i] = "."
  /\ Cardinality({ i \in 1..Len(t) : t[i] = "." }) <= 1

\* parseFloat(t) of a text that passed the test above: the digits before and
\* after the point; NaN when there is no digit.
ParseFloat(t) ==
  LET dots == { i \in 1..Len(t) : t[i] = "." }
      dot  == IF dots = {} THEN Len(t) + 1 ELSE CHOOSE i \in dots : TRUE
      int  == SubSeq(t, 1, dot - 1)
      frac == SubSeq(t, dot + 1, Len(t))
  IN IF int = << >> /\ frac = << >> THEN NotANumber
     ELSE Decimal(DigitsValue(int \o frac), Len(frac))

\* Number(t) of such a text, or of the empty text (0).
NumberOf(t) == IF t = << >> THEN Decimal(0, 0) ELSE ParseFloat(t)

RECURSIVE NatToString(_)
NatToString(n) ==
  IF n < 10 THEN << DigitChars[n + 1] >>
  ELSE NatToString(n \div 10) \o << DigitChars[(n % 10) + 1] >>

RECURSIVE PadLeft(_, _)
PadLeft(t, len) == IF Len(t) >= len THEN t ELSE PadLeft(<< "0" >> \o t, len)

\* value.toString() of a non-negative decimal below 1e21.
NumberToString(v) ==
  IF v.d = 0 THEN NatToString(v.n)
  ELSE NatToString(v.n \div Pow10(v.d)) \o << "." >>
         \o PadLeft(NatToString(v.n % Pow10(v.d)), v.d)

\* The decimal as a Number of the engine.
ToNumber(v) == Div(Num(v.n), Num(Pow10(v.d)))

Fields ==
  { "principal", "interestRate", "tenureYears", "sipReturnRate",
    "extraEmiPerYear", "stepUpPercentage" }

\* The LoanInput object of the App as the engine receives it (the engine
\* counts whole tenure years; RawValues holds no text with a fraction).
ToLoanInput(in) ==
  [principal |-> ToNumber(in.principal), interestRate |-> ToNumber(in.interestRate),
   tenureYears |-> in.tenureYears.n \div Pow10(in.tenureYears.d),
   sipReturnRate |-> ToNumber(in.sipReturnRate),
   extraEmiPerYear |-> ToNumber(in.extraEmiPerYear),
   stepUpPercentage |-> ToNumber(in.stepUpPercentage)]

\* useState<LoanInput>({...}) of App.
DefaultInput ==
  [principal |-> Decimal(5000000, 0), interestRate |-> Decimal(85, 1),
   tenureYears |-> Decimal(20, 0), sipReturnRate |-> Decimal(12, 0),
   extraEmiPerYear |-> Decimal(1, 0), stepUpPercentage |-> Decimal(5, 0)]

\* The min prop of InputField: no field of the App overrides the default.
MinValue == Decimal(0, 0)

\* e.target.value of a change event: empty, zero, a number, a lone point, a
\* sign, a number with a trailing point, a number with a leading zero.
RawValues ==
  { << >>, << "0" >>, << "2" >>, << "." >>, << "-" >>, << "2", "." >>, << "0", "2" >> }

\* What handleChange does to the field's displayValue and whether, and with
\* what, it calls onChange.
Change(displayValue, rawVal) ==
  IF rawVal = << >>
  THEN [displayValue |-> << >>, onChange |-> TRUE, val |-> Decimal(0, 0)]
  ELSE IF ~MatchesDecimal(rawVal)
  THEN [displayValue |-> displayValue, onChange |-> FALSE, val |-> NotANumber]
  ELSE LET numVal == ParseFloat(rawVal)
       IN [displayValue |-> rawVal,
           onChange |-> numVal # NotANumber /\ numVal.n >= MinValue.n,
           val |-> numVal]

\* The effect of InputField on [value]: the display is replaced by the value's
\* text when it parses to another number and is neither '' nor '.'.
Sync(displayValue, value) ==
  IF NumberOf(displayValue) # value /\ displayValue # << >> /\ displayValue # << "." >>
  THEN NumberToString(value)
  ELSE displayValue

\* A new call of calculateScenario(in): fresh locals.
StartCall(in) ==
  /\ pc' = "call"
  /\ input' = in
  /\ monthlyRate' = Unset /\ sipMonthlyRate' = Unset /\ baseEmi' = Unset
  /\ totalMonths' = 0
  /\ balanceRegular' = Unset /\ balanceAggressive' = Unset
  /\ sipValueRegular' = Unset /\ sipValueAggressive' = Unset
  /\ totalInvestedRegular' = Unset /\ totalInvestedAggressive' = Unset
  /\ totalInterestRegular' = Unset /\ totalInterestAggressive' = Unset
  /\ aggressiveClosedMonth' = 0 /\ regularClosedMonth' = 0
  /\ isAggressiveClosed' = FALSE /\ isRegularClosed' = FALSE
  /\ month' = 0
  /\ loc' = NoLocals
  /\ data' = << >>

\* The App after mounting: the fields show the default values and the
\* recalculation effect calls calculateScenario(input).
InitApp ==
  /\ app = [mounted |-> TRUE, input |-> DefaultInput,
            displayValue |-> [f \in Fields |-> NumberToString(DefaultInput[f])],
            edits |-> 0]
  /\ pc = "call"
  /\ input = ToLoanInput(DefaultInput)
  /\ monthlyRate = Unset /\ sipMonthlyRate = Unset /\ baseEmi = Unset
  /\ totalMonths = 0
  /\ balanceRegular = Unset /\ balanceAggressive = Unset
  /\ sipValueRegular = Unset /\ sipValueAggressive = Unset
  /\ totalInvestedRegular = Unset /\ totalInvestedAggressive = Unset
  /\ totalInterestRegular = Unset /\ totalInterestAggressive = Unset
  /\ aggressiveClosedMonth = 0 /\ regularClosedMonth = 0
  /\ isAggressiveClosed = FALSE /\ isRegularClosed = FALSE
  /\ month = 0
  /\ loc = NoLocals
  /\ data = << >>
  /\ result = NoResult
  /\ advice = NoAdvice

\* A change event of one field: handleChange, then, when onChange was called,
\* setInput({...input, field: v}), the field's effect on [value] if the value
\* changed, and the recalculation effect on [input].
HandleChange ==
  /\ app.mounted /\ pc = "done"
  /\ app.edits < MaxEdits
  /\ \E f \in Fields, rawVal \in RawValues :
       LET c  == Change(app.displayValue[f], rawVal)
           in == [app.input EXCEPT ![f] = c.val]
           dv == IF c.val # app.input[f] THEN Sync(c.displayValue, c.val)
                 ELSE c.displayValue
       IN IF c.onChange
          THEN /\ app' = [app EXCEPT !.input = in, !.displayValue[f] = dv,
                                     !.edits = @ + 1]
               /\ StartCall(ToLoanInput(in))
               /\ UNCHANGED << result, advice >>
          ELSE /\ app' = [app EXCEPT !.displayValue[f] = c.displayValue,
                                     !.edits = @ + 1]
               /\ UNCHANGED << calcVars, advice >>

\* A blur event of one field: an empty or '.' display shows the value again.
HandleBlur ==
  /\ app.mounted /\ pc = "done"
  /\ \E f \in Fields :
       /\ app' = [app EXCEPT !.displayValue[f] =
                    IF @ = << >> \/ @ = << "." >> THEN NumberToString(app.input[f]) ELSE @]
       /\ UNCHANGED << calcVars, advice >>

NextApp == HandleChange \/ HandleBlur \/ Enter \/ Month \/ Return

SpecApp == InitApp /\ [][NextApp]_vars

-----------------------------------------------------------------------------
(* Vocabulary of the properties *)

Returned == result.returned

InLoop == loc.month > 0

Summary == result.summary

\* The last iteration closed the Regular / Aggressive track.
RegularClosedNow == loc.regularActive /\ isRegularClosed

AggressiveClosedNow == loc.aggressiveActive /\ isAggressiveClosed

\* What the last iteration paid to the loan: nothing on a closed track, the
\* outstanding balance and its interest in the closing month, and otherwise
\* the proposed payment (of which principalComp is what interest leaves).
PaidRegular ==
  IF ~loc.regularActive THEN Zero
  ELSE IF isRegularClosed THEN Add(loc.principalCompRegular, loc.interestRegular)
  ELSE baseEmi

PaidAggressive ==
  IF ~loc.aggressiveActive THEN Zero
  ELSE IF isAggressiveClosed THEN Add(loc.principalCompAggressive, loc.interestAggressive)
  ELSE loc.amountForLoanAggressive

\* What the last iteration added to the investment.
ContributedRegular ==
  IF GT(loc.surplusRegular, Zero) THEN loc.surplusRegular ELSE Zero

ContributedAggressive ==
  IF GT(loc.amountForSipAggressive, Zero) THEN loc.amountForSipAggressive ELSE Zero

SnapshotNumbers(d) ==
  { d.loanBalanceRegular, d.loanBalanceAggressive, d.sipValueRegular,
    d.sipValueAggressive, d.cumulativeInterestRegular, d.cumulativeInterestAggressive,
    d.totalInvestedRegular, d.totalInvestedAggressive }

SummaryNumbers(s) ==
  { s.regularTotalInterest, s.aggressiveTotalInterest, s.interestSaved,
    s.finalWealthRegular, s.finalWealthAggressive, s.totalAmountInvestedRegular,
    s.totalAmountInvestedAggressive, s.netWealthDifference }

\* The inputs simulate is specified to reject.
Rejected(in) ==
  \/ LE(in.principal, Zero)
  \/ in.tenureYears <= 0
  \/ LT(in.interestRate, Zero)
  \/ LT(in.sipReturnRate, Zero)

-----------------------------------------------------------------------------
(* Properties *)

\* C1: for a valid input with interestRate = 0 the installment is
\* principal / (tenureYears * 12) and no number of a snapshot or of the
\* summary is NaN.
C1_ZeroRateInstallment ==
  (pc # "call" /\ ValidInput(input) /\ EQ(input.interestRate, Zero)) =>
    /\ baseEmi = Div(input.principal, Num(totalMonths))
    /\ \A i \in 1..Len(data) : \A x \in SnapshotNumbers(data[i]) : IsFin(x)
    /\ Returned => \A x \in SummaryNumbers(Summary) : IsFin(x)

\* C2: an input with principal <= 0, tenureYears <= 0, interestRate < 0 or
\* sipReturnRate < 0 is rejected before any month is simulated (no snapshot,
\* no summary); every other input returns a result with all its months.
C2_RejectsInvalidInput ==
  /\ Rejected(input) => (Len(data) = 0 /\ ~Returned)
  /\ (~Rejected(input) /\ pc = "done") =>
        (Returned /\ Len(result.monthlyData) = input.tenureYears * 12)

\* C3: for a valid input, in every snapshot a Regular balance of 0 comes with
\* an Aggressive balance of 0, and aggressiveTenureMonths <= regularTenureMonths.
C3_AggressiveClosesNoLater ==
  ValidInput(input) =>
    /\ \A i \in 1..Len(data) :
         data[i].loanBalanceRegular = Zero => data[i].loanBalanceAggressive = Zero
    /\ Returned => Summary.aggressiveTenureMonths <= Summary.regularTenureMonths

\* C3 witness: a returned valid run whose Regular track closed (snapshot
\* balance 0) after the Aggressive track did.
C3_Witness ==
  /\ Returned /\ ValidInput(input)
  /\ isRegularClosed /\ isAggressiveClosed
  /\ data[Len(data)].loanBalanceRegular = Zero
  /\ Summary.aggressiveTenureMonths < Summary.regularTenureMonths

\* C4: for a valid input, cumulativeInterestAggressive <= cumulativeInterestRegular
\* in every snapshot and aggressiveTotalInterest <= regularTotalInterest.
C4_AggressiveInterestNoMore ==
  ValidInput(input) =>
    /\ \A i \in 1..Len(data) :
         LE(data[i].cumulativeInterestAggressive, data[i].cumulativeInterestRegular)
    /\ Returned => LE(Summary.aggressiveTotalInterest, Summary.regularTotalInterest)

\* C5: in every month of a valid run and for each strategy, what is paid to
\* the loan plus what is contributed to the investment does not exceed the
\* month's budget (the contribution does not exceed the budget less the
\* payment), and the Aggressive track is offered that same budget.
C5_WithinBudget ==
  (ValidInput(input) /\ InLoop) =>
    /\ ~GT(ContributedRegular, Sub(loc.totalBudgetThisMonth, PaidRegular))
    /\ ~GT(ContributedAggressive, Sub(loc.totalBudgetThisMonth, PaidAggressive))
    /\ loc.aggressiveActive => loc.amountForLoanAggressive = loc.totalBudgetThisMonth

\* C6: in the month the Regular track closes the Regular contribution is
\* budget - baseEmi; it is the whole budget only in months after the closing
\* month.
C6_ClosingMonthSurplus ==
  (ValidInput(input) /\ InLoop) =>
    /\ RegularClosedNow => EQ(loc.surplusRegular, Sub(loc.totalBudgetThisMonth, baseEmi))
    /\ EQ(loc.surplusRegular, loc.totalBudgetThisMonth) =>
         (isRegularClosed /\ regularClosedMonth < loc.month)

\* C7: with tenureYears = 1, extraEmiPerYear = 0 and stepUpPercentage = 0 the
\* two strategies pay the same to the loan and contribute the same to the
\* investment in every month, and finalWealthRegular equals
\* finalWealthAggressive.
C7_FlatYearIdentical ==
  ( /\ ValidInput(input)
    /\ input.tenureYears = 1
    /\ input.extraEmiPerYear = Zero
    /\ input.stepUpPercentage = Zero ) =>
    /\ InLoop => /\ PaidRegular = PaidAggressive
                 /\ ContributedRegular = ContributedAggressive
    /\ Returned => EQ(Summary.finalWealthRegular, Summary.finalWealthAggressive)

\* C8: winningStrategy is 'Prepay' exactly when finalWealthAggressive is
\* greater than finalWealthRegular, and 'Invest' otherwise (ties included).
C8_StrictVerdict ==
  Returned =>
    /\ Summary.winningStrategy = "Prepay" <=>
         GT(Summary.finalWealthAggressive, Summary.finalWealthRegular)
    /\ ~GT(Summary.finalWealthAggressive, Summary.finalWealthRegular) =>
         Summary.winningStrategy = "Invest"

\* C8 witness: a returned valid run with equal final wealths, resolved to
\* 'Invest'.
C8_Witness ==
  /\ Returned /\ ValidInput(input)
  /\ EQ(Summary.finalWealthAggressive, Summary.finalWealthRegular)
  /\ Summary.winningStrategy = "Invest"

\* C9: for a valid input and both strategies the snapshot balance never
\* increases from a month to the next, and it is 0 in the closing month and
\* in every later month.
C9_BalanceNonIncreasing ==
  ValidInput(input) =>
    /\ \A i \in 1..(Len(data) - 1) :
         /\ ~GT(data[i + 1].loanBalanceRegular, data[i].loanBalanceRegular)
         /\ ~GT(data[i + 1].loanBalanceAggressive, data[i].loanBalanceAggressive)
    /\ isRegularClosed =>
         \A i \in regularClosedMonth..Len(data) : data[i].loanBalanceRegular = Zero
    /\ isAggressiveClosed =>
         \A i \in aggressiveClosedMonth..Len(data) : data[i].loanBalanceAggressive = Zero

\* C9 witness: both tracks closed, the Aggressive one at least two months
\* before the last snapshot, after balances that went strictly down.
C9_Witness ==
  /\ ValidInput(input) /\ isRegularClosed /\ isAggressiveClosed
  /\ aggressiveClosedMonth + 2 <= Len(data)
  /\ LT(data[2].loanBalanceRegular, data[1].loanBalanceRegular)
  /\ LT(data[2].loanBalanceAggressive, data[1].loanBalanceAggressive)

\* C10: once a track is closed its flag stays set, its closure month stays,
\* its cumulative interest gets nothing more and its balance no payment.
C10_ClosureAbsorbing ==
  [][ /\ isRegularClosed =>
           /\ isRegularClosed'
           /\ regularClosedMonth' = regularClosedMonth
           /\ totalInterestRegular' = totalInterestRegular
           /\ balanceRegular' = balanceRegular
      /\ isAggressiveClosed =>
           /\ isAggressiveClosed'
           /\ aggressiveClosedMonth' = aggressiveClosedMonth
           /\ totalInterestAggressive' = totalInterestAggressive
           /\ balanceAggressive' = balanceAggressive ]_vars

\* C10 witness: a month simulated after the Aggressive track closed.
C10_Witness ==
  /\ ValidInput(input) /\ InLoop
  /\ isAggressiveClosed /\ ~loc.aggressiveActive
  /\ aggressiveClosedMonth < loc.month

\* C11: for a valid input and both strategies, cumulative interest and total
\* invested never go down from a snapshot to the next.
C11_TotalsNonDecreasing ==
  ValidInput(input) =>
    \A i \in 1..(Len(data) - 1) :
      /\ ~LT(data[i + 1].cumulativeInterestRegular, data[i].cumulativeInterestRegular)
      /\ ~LT(data[i + 1].cumulativeInterestAggressive, data[i].cumulativeInterestAggressive)
      /\ ~LT(data[i + 1].totalInvestedRegular, data[i].totalInvestedRegular)
      /\ ~LT(data[i + 1].totalInvestedAggressive, data[i].totalInvestedAggressive)

\* C11 witness: a valid run in which all four totals have grown between two
\* snapshots.
C11_Witness ==
  /\ ValidInput(input) /\ Len(data) >= 2
  /\ \E i \in 1..(Len(data) - 1) :
       /\ LT(data[i].cumulativeInterestRegular, data[i + 1].cumulativeInterestRegular)
       /\ LT(data[i].totalInvestedRegular, data[i + 1].totalInvestedRegular)
  /\ \E i \in 1..(Len(data) - 1) :
       LT(data[i].cumulativeInterestAggressive, data[i + 1].cumulativeInterestAggressive)
  /\ \E i \in 1..(Len(data) - 1) :
       LT(data[i].totalInvestedAggressive, data[i + 1].totalInvestedAggressive)

\* C12: for a valid input the result has tenureYears * 12 snapshots, the i-th
\* snapshot has month = i, and its year is the least y with month <= 12 * y.
C12_MonthsContiguous ==
  ValidInput(input) =>
    /\ \A i \in 1..Len(data) :
         /\ data[i].month = i
         /\ 12 * (data[i].year - 1) < data[i].month
         /\ data[i].month <= 12 * data[i].year
    /\ Returned => Len(result.monthlyData) = input.tenureYears * 12

\* C12 witness: a returned valid run of two years, with snapshots of year 1
\* and of year 2.
C12_Witness ==
  /\ Returned /\ ValidInput(input)
  /\ Len(result.monthlyData) = 24
  /\ result.monthlyData[12].year = 1
  /\ result.monthlyData[13].year = 2

\* The loan still outstanding: the balance when it is positive, 0 when it is
\* zero or negative (a NaN balance stays NaN).
Outstanding(balance) ==
  IF GT(balance, Zero) THEN balance
  ELSE IF IsNaN(balance) THEN NaN ELSE Zero

\* C13: in the summary the final wealth of a strategy is its final investment
\* value less its outstanding balance (also when the track never closed),
\* netWealthDifference is the absolute difference of the two final wealths and
\* interestSaved is regularTotalInterest - aggressiveTotalInterest.
C13_SummaryArithmetic ==
  Returned =>
    /\ Summary.finalWealthRegular = Sub(sipValueRegular, Outstanding(balanceRegular))
    /\ Summary.finalWealthAggressive =
         Sub(sipValueAggressive, Outstanding(balanceAggressive))
    /\ Summary.netWealthDifference =
         (IF LT(Summary.finalWealthAggressive, Summary.finalWealthRegular)
          THEN Sub(Summary.finalWealthRegular, Summary.finalWealthAggressive)
          ELSE Sub(Summary.finalWealthAggressive, Summary.finalWealthRegular))
    /\ Summary.interestSaved =
         Sub(Summary.regularTotalInterest, Summary.aggressiveTotalInterest)

\* C13 witness: a returned valid run whose Regular track never closed and
\* ended with a positive balance, taken off its final wealth.
C13_Witness ==
  /\ Returned /\ ValidInput(input)
  /\ ~isRegularClosed /\ GT(balanceRegular, Zero)
  /\ GT(sipValueRegular, Zero)
  /\ LT(Summary.finalWealthRegular, sipValueRegular)
  /\ GT(Summary.netWealthDifference, Zero)

\* A step of the loop body.
MonthStep == pc = "loop" /\ month <= totalMonths /\ month' = month + 1

\* C15: in a month of a valid run in which the Aggressive track is active and
\* does not close, the whole budget is proposed to the loan and nothing is
\* invested; in the month it closes the contribution is
\* budget - (balance + interest); in every later month it is the whole budget.
C15_AggressiveAllocation ==
  [][ (MonthStep /\ ValidInput(input)) =>
        LET budget   == loc'.totalBudgetThisMonth
            interest == Mul(balanceAggressive, monthlyRate)
        IN IF isAggressiveClosed
           THEN /\ loc'.amountForSipAggressive = budget
                /\ loc'.amountForLoanAggressive = Zero
           ELSE /\ loc'.amountForLoanAggressive = budget
                /\ IF isAggressiveClosed'
                   THEN /\ loc'.amountForSipAggressive =
                             Sub(budget, Add(balanceAggressive, interest))
                        /\ ~LT(loc'.amountForSipAggressive, Zero)
                   ELSE /\ loc'.amountForSipAggressive = Zero
                        /\ totalInvestedAggressive' = totalInvestedAggressive ]_vars

\* C15 witness: the Aggressive track closed in the last iteration, before the
\* end of the tenure, and a positive remainder was invested.
C15_Witness ==
  /\ ValidInput(input) /\ InLoop /\ AggressiveClosedNow
  /\ loc.month < totalMonths
  /\ GT(loc.amountForSipAggressive, Zero)
  /\ LT(loc.amountForSipAggressive, loc.totalBudgetThisMonth)
  /\ totalInvestedAggressive = loc.amountForSipAggressive

\* C16: in every month and for both strategies, with c >= 0 the month's
\* contribution, value' = (value + c) * (1 + s) and
\* totalInvested' = totalInvested + c; with c = 0 the value still grows.
C16_ContributionBeforeGrowth ==
  [][ MonthStep =>
        /\ ~LT(ContributedRegular', Zero)
        /\ sipValueRegular' =
             Mul(Add(sipValueRegular, ContributedRegular'), Add(Num(1), sipMonthlyRate))
        /\ totalInvestedRegular' = Add(totalInvestedRegular, ContributedRegular')
        /\ ~LT(ContributedAggressive', Zero)
        /\ sipValueAggressive' =
             Mul(Add(sipValueAggressive, ContributedAggressive'),
                 Add(Num(1), sipMonthlyRate))
        /\ totalInvestedAggressive' =
             Add(totalInvestedAggressive, ContributedAggressive') ]_vars

\* C16 witness: with a positive return rate, a month without a Regular
\* contribution in which the Regular investment, positive from an earlier
\* contribution, grew, while the Aggressive strategy contributed.
C16_Witness ==
  /\ ValidInput(input) /\ InLoop /\ Len(data) >= 2
  /\ GT(sipMonthlyRate, Zero)
  /\ ContributedRegular = Zero
  /\ GT(data[Len(data) - 1].sipValueRegular, Zero)
  /\ GT(sipValueRegular, data[Len(data) - 1].sipValueRegular)
  /\ GT(ContributedAggressive, Zero)
  /\ GT(data[Len(data) - 1].sipValueAggressive, Zero)

\* The year of a month: the least y with month <= 12 * y.
YearOf(m) == CHOOSE y \in 1..m : 12 * (y - 1) < m /\ m <= 12 * y

\* C17: the budget of month m of year y is
\* baseEmi * (1 + stepUpPercentage / 100)^(y - 1), plus baseEmi * extraEmiPerYear
\* when extraEmiPerYear > 0 and m mod 12 = 0; for a valid input it is not below
\* baseEmi in any month and it is baseEmi in the first eleven months.
C17_BudgetSchedule ==
  InLoop =>
    LET m    == loc.month
        base == Mul(baseEmi,
                    Pow(Add(Num(1), Div(input.stepUpPercentage, Num(100))), YearOf(m) - 1))
        plus == IF GT(input.extraEmiPerYear, Zero) /\ m % 12 = 0
                THEN Mul(baseEmi, input.extraEmiPerYear)
                ELSE Zero
    IN /\ loc.totalBudgetThisMonth = Add(base, plus)
       /\ ValidInput(input) =>
            /\ ~LT(loc.totalBudgetThisMonth, baseEmi)
            /\ m < 12 => loc.totalBudgetThisMonth = baseEmi

\* C17 witness: the last month of year 2 of a valid run with a step-up and an
\* extra EMI, with a budget above twice the base EMI.
C17_Witness ==
  /\ ValidInput(input) /\ InLoop /\ loc.month = 24
  /\ GT(input.stepUpPercentage, Zero) /\ GT(input.extraEmiPerYear, Zero)
  /\ GT(loc.totalBudgetThisMonth, Add(baseEmi, baseEmi))

\* The months whose snapshot balance is 0.
ZeroMonthsRegular == { i \in 1..Len(data) : data[i].loanBalanceRegular = Zero }

ZeroMonthsAggressive == { i \in 1..Len(data) : data[i].loanBalanceAggressive = Zero }

Least(S) == CHOOSE i \in S : \A j \in S : i <= j

\* C18 as claimed, for valid inputs with a positive interest rate: the closure
\* month of the summary is the first month whose snapshot balance is 0, for
\* each strategy.
C18_ClosureMonthIsFirstZero ==
  (Returned /\ ValidInput(input) /\ GT(input.interestRate, Zero)) =>
    /\ ZeroMonthsRegular # {}
    /\ Summary.regularTenureMonths = Least(ZeroMonthsRegular)
    /\ ZeroMonthsAggressive # {}
    /\ Summary.aggressiveTenureMonths = Least(ZeroMonthsAggressive)

\* C18 amended: for a valid input and each strategy, when a payment overpaid
\* the balance (the track closed) the closure month of the summary is the
\* month of that payment, whose snapshot balance is 0: the first such month,
\* or the month after it when the payment before paid the balance off exactly;
\* when no payment overpaid, the closure month is tenureYears * 12, whatever
\* balance is left, and no snapshot before the last has a balance of 0.
C18_ClosureMonthIsOverpayMonth ==
  (Returned /\ ValidInput(input)) =>
    /\ IF isRegularClosed
       THEN /\ Summary.regularTenureMonths \in ZeroMonthsRegular
            /\ Summary.regularTenureMonths \in
                 { Least(ZeroMonthsRegular), Least(ZeroMonthsRegular) + 1 }
       ELSE /\ Summary.regularTenureMonths = input.tenureYears * 12
            /\ ZeroMonthsRegular \subseteq { input.tenureYears * 12 }
    /\ IF isAggressiveClosed
       THEN /\ Summary.aggressiveTenureMonths \in ZeroMonthsAggressive
            /\ Summary.aggressiveTenureMonths \in
                 { Least(ZeroMonthsAggressive), Least(ZeroMonthsAggressive) + 1 }
       ELSE /\ Summary.aggressiveTenureMonths = input.tenureYears * 12
            /\ ZeroMonthsAggressive \subseteq { input.tenureYears * 12 }

\* C18 witness: a returned valid run with a positive interest rate whose
\* Regular track never closed (reported at tenureYears * 12 with a positive
\* balance left) and whose Aggressive track closed earlier.
C18_Witness ==
  /\ Returned /\ ValidInput(input) /\ GT(input.interestRate, Zero)
  /\ ~isRegularClosed /\ GT(balanceRegular, Zero)
  /\ Summary.regularTenureMonths = input.tenureYears * 12
  /\ isAggressiveClosed
  /\ Summary.aggressiveTenureMonths = Least(ZeroMonthsAggressive)
  /\ Summary.aggressiveTenureMonths < input.tenureYears * 12

\* C14: whenever the text-generation service is unavailable (no API key, or
\* generateContent fails), a finished call of getAIAdvice has returned the
\* fallback message and has not raised an error; the SimulationResult it was
\* given is unchanged.
C14_GracefulDegradation ==
  /\ (advice.pc \in {"returned", "thrown"}
        /\ (advice.apiKey = "missing" \/ advice.failed)) =>
       (advice.pc = "returned" /\ advice.text = FallbackAdvice)
  /\ advice.pc # "idle" => result = advice.given

\* C19: every LoanInput the App passes to calculateScenario has
\* principal > 0 and tenureYears > 0 and no negative rate.
C19_AppPassesAcceptedInput ==
  app.mounted =>
    /\ GT(input.principal, Zero)
    /\ input.tenureYears > 0
    /\ ~LT(input.interestRate, Zero)
    /\ ~LT(input.sipReturnRate, Zero)

====
